---- MODULE Spec2Model ----
(***************************************************************************)
(* A model of the process supervision subsystem of facts:                  *)
(*   - RunningServer::new_line, the log-driven lifecycle state machine     *)
(*     (src/src/server_process.rs),                                        *)
(*   - stdout_thread and server_process::run, the output reader and the    *)
(*     supervisor control loop (src/src/server_process.rs),                *)
(*   - Server::run_once / Server::run, the orchestrator and its autoupdate *)
(*     loop (src/src/server.rs),                                           *)
(*   - the ctrlc handler and cmd_start (src/src/main.rs).                  *)
(*                                                                         *)
(* A log line is a sequence of tokens separated by single blanks.  A token *)
(* is a record [k, v]: k is the lexical shape the regular expressions of   *)
(* new_line tell apart, v its text.                                        *)
(*   num   a <seconds>.<subseconds> stamp        \d+\.\d+                  *)
(*   date  a <YYYY>-MM-DD stamp                  \d{4,}-\d{2}-\d{2}        *)
(*   time  a HH:MM:SS stamp                      \d{2}:\d{2}:\d{2}         *)
(*   tag   [v]                                                             *)
(*   from  from(v)                                                         *)
(*   to    to(v)                                                           *)
(*   word  any other blank-free text v                                     *)
(***************************************************************************)
EXTENDS Integers, Sequences, FiniteSets, TLC

VARIABLES
    \* process-wide interrupt state (main.rs) and the process's exit
    interrupted, catching, exit,
    \* Server (server.rs): configuration and version
    policy, interval, current,
    \* orchestrator thread: position in cmd_start / Server::run / run_once
    pc, tick, resolved, result,
    \* channels of one supervised run
    fromServer,
    \* control-loop thread (server_process::run)
    cpc, state, startup_complete,
    \* reader thread (stdout_thread)
    rpc, cur,
    \* child process and the lines of its standard output read so far
    child, emitted,
    \* history of the run, observed for the properties
    hist,
    \* the last call of new_line: snapshot before, line, result
    call

vars == <<interrupted, catching, exit, policy, interval, current,
          pc, tick, resolved, result, fromServer,
          cpc, state, startup_complete, rpc, cur,
          child, emitted, hist, call>>

----------------------------------------------------------------------------
(* Tokens and lines *)

W(s) == [k |-> "word", v |-> s]
Num == [k |-> "num", v |-> "0.100"]
Date == [k |-> "date", v |-> "2020-01-01"]
Time == [k |-> "time", v |-> "12:00:00"]
Tag(e) == [k |-> "tag", v |-> e]
From(x) == [k |-> "from", v |-> x]
To(y) == [k |-> "to", v |-> y]
\* the white space that is all of an event's msg
Blank == [k |-> "blank", v |-> " "]

\* enum RunningServerState, the names strum's EnumString accepts
RunningServerState ==
    {"Start", "Ready", "PreparedToHostGame", "CreatingGame",
     "InitializationFailed", "InGame", "InGameSavingMap",
     "DisconnectingScheduled", "Disconnecting", "Disconnected",
     "Closed", "Failed"}

\* RunningServer::new(): Default::default()
NewRunningServer == [state |-> "Start", players_online |-> {}]

\* The message new_line compares the captured msg with
PortMsg ==
    <<W("MultiplayerManager"), W("failed:"), W("Host"), W("address"),
      W("is"), W("already"), W("in"), W("use.")>>

\* RE_ERROR: ^\s*\d+\.\d+\sError\s.+?\s+(?P<msg>.+?)\s*$
\* the lazy component is the third token, msg is what follows it
ReErrorMatches(line) ==
    /\ Len(line) >= 4
    /\ line[1].k = "num"
    /\ line[2] = W("Error")

ReErrorMsg(line) == SubSeq(line, 4, Len(line))

\* RE_STATE: ^\s*\d+\.\d+\sInfo.+?changing\sstate\sfrom\(.+?\)\sto\((?P<newstate>.+?)\)$
\* the places where "changing state from(..) to(" starts
ReStatePlaces(line) ==
    {i \in 3..(Len(line) - 3) :
        /\ line[i] = W("changing")
        /\ line[i + 1] = W("state")
        /\ line[i + 2].k = "from"
        /\ line[i + 3].k = "to"}

ReStateMatches(line) ==
    /\ Len(line) >= 6
    /\ line[1].k = "num"
    /\ line[2] = W("Info")
    /\ ReStatePlaces(line) # {}
    /\ line[Len(line)].k \in {"from", "to"}      \* the line ends with ")"

\* newstate: the text between the first "to(" and the ")" that ends the line;
\* it is one name only when that to(..) token is the last token
ReStateNew(line) ==
    LET i == CHOOSE j \in ReStatePlaces(line) :
                 \A m \in ReStatePlaces(line) : j <= m
    IN  IF i + 3 = Len(line) THEN line[i + 3].v ELSE "<several tokens>"

\* RE_EVENT: ^\d{4,}+-\d{2}-\d{2}\s\d{2}:\d{2}:\d{2}\s\[(?P<event>.+?)\]\s(?P<msg>.+)$
ReEventMatches(line) ==
    /\ Len(line) >= 4
    /\ line[1].k = "date"
    /\ line[2].k = "time"
    /\ line[3].k = "tag"

ReEventTag(line) == line[3].v

\* msg.split_whitespace().next(): the first token of msg, if it has one
ReEventHasName(line) == line[4] # Blank

ReEventName(line) == line[4].v

\* RE_GOODBYE: ^\s*\d+\.\d+\sGoodbye$
ReGoodbyeMatches(line) ==
    /\ Len(line) = 2
    /\ line[1].k = "num"
    /\ line[2] = W("Goodbye")

\* ApplyError gone wrong: the port error marks the snapshot Failed
ApplyErrorMarksFailed(s, line) ==
    IF ReErrorMsg(line) = PortMsg
    THEN [res |-> "PortUnavailable", rs |-> [s EXCEPT !.state = "Failed"]]
    ELSE [res |-> "panic", rs |-> s]

\* server_process.rs:60-65, a line RE_ERROR matches: the result and the
\* snapshot left ("PortUnavailable" is Err(ServerError::PortUnavailable))
ApplyError(s, line) ==
    IF ReErrorMsg(line) = PortMsg
    THEN [res |-> "PortUnavailable", rs |-> s]
    ELSE [res |-> "panic", rs |-> s]

\* ApplyState gone wrong: a transition table, the line is applied only when
\* its from(..) names the current state
ApplyStateByTable(s, line) ==
    IF ReStateNew(line) \in RunningServerState
    THEN IF line[Len(line) - 1].v = s.state
         THEN [res |-> "Ok", rs |-> [s EXCEPT !.state = ReStateNew(line)]]
         ELSE [res |-> "Ok", rs |-> s]
    ELSE [res |-> "panic", rs |-> s]

\* ApplyState gone wrong: an unknown state name is ignored, the old state
\* stays and the call returns Ok
ApplyStateSkipsUnknown(s, line) ==
    IF ReStateNew(line) \in RunningServerState
    THEN [res |-> "Ok", rs |-> [s EXCEPT !.state = ReStateNew(line)]]
    ELSE [res |-> "Ok", rs |-> s]

\* server_process.rs:66-68, a line RE_STATE matches.
\* RunningServerState::from_str accepts exactly the variant names
ApplyState(s, line) ==
    IF ReStateNew(line) \in RunningServerState
    THEN [res |-> "Ok", rs |-> [s EXCEPT !.state = ReStateNew(line)]]
    ELSE [res |-> "panic", rs |-> s]

\* ApplyEvent gone wrong: LEAVE clears the set of players
ApplyEventLeaveClears(s, line) ==
    IF ReEventTag(line) \in {"JOIN", "LEAVE"} /\ ~ReEventHasName(line) THEN
        [res |-> "panic", rs |-> s]                        \* .unwrap()
    ELSE IF ReEventTag(line) = "JOIN" THEN
        [res |-> "Ok",
         rs |-> [s EXCEPT !.players_online = @ \cup {ReEventName(line)}]]
    ELSE IF ReEventTag(line) = "LEAVE" THEN
        [res |-> "Ok", rs |-> [s EXCEPT !.players_online = {}]]
    ELSE [res |-> "Ok", rs |-> s]

\* ApplyEvent gone wrong: LEAVE of a player who is not online is a fault
ApplyEventLeaveStrict(s, line) ==
    IF ReEventTag(line) \in {"JOIN", "LEAVE"} /\ ~ReEventHasName(line) THEN
        [res |-> "panic", rs |-> s]                        \* .unwrap()
    ELSE IF ReEventTag(line) = "JOIN" THEN
        [res |-> "Ok",
         rs |-> [s EXCEPT !.players_online = @ \cup {ReEventName(line)}]]
    ELSE IF ReEventTag(line) = "LEAVE" THEN
        IF ReEventName(line) \in s.players_online
        THEN [res |-> "Ok",
              rs |-> [s EXCEPT !.players_online = @ \ {ReEventName(line)}]]
        ELSE [res |-> "panic", rs |-> s]
    ELSE [res |-> "Ok", rs |-> s]

\* ApplyEvent gone wrong: every tag but LEAVE counts as a JOIN
ApplyEventAnyTagJoins(s, line) ==
    IF ReEventTag(line) \in {"JOIN", "LEAVE"} /\ ~ReEventHasName(line) THEN
        [res |-> "panic", rs |-> s]                        \* .unwrap()
    ELSE IF ReEventTag(line) = "LEAVE" THEN
        [res |-> "Ok",
         rs |-> [s EXCEPT !.players_online = @ \ {ReEventName(line)}]]
    ELSE IF ReEventHasName(line) THEN
        [res |-> "Ok",
         rs |-> [s EXCEPT !.players_online = @ \cup {ReEventName(line)}]]
    ELSE [res |-> "Ok", rs |-> s]

\* server_process.rs:69-80, a line RE_EVENT matches
ApplyEvent(s, line) ==
    IF ReEventTag(line) \in {"JOIN", "LEAVE"} /\ ~ReEventHasName(line) THEN
        [res |-> "panic", rs |-> s]                        \* .unwrap()
    ELSE IF ReEventTag(line) = "JOIN" THEN
        [res |-> "Ok",
         rs |-> [s EXCEPT !.players_online = @ \cup {ReEventName(line)}]]
    ELSE IF ReEventTag(line) = "LEAVE" THEN
        [res |-> "Ok",
         rs |-> [s EXCEPT !.players_online = @ \ {ReEventName(line)}]]
    ELSE [res |-> "Ok", rs |-> s]

\* RunningServer::new_line (server_process.rs:46-83): the result ("Ok",
\* "PortUnavailable" or "panic") and the snapshot it leaves
new_line(s, line) ==
    IF ReErrorMatches(line) THEN ApplyError(s, line)
    ELSE IF ReStateMatches(line) THEN ApplyState(s, line)
    ELSE IF ReEventMatches(line) THEN ApplyEvent(s, line)
    ELSE [res |-> "Ok", rs |-> s]

----------------------------------------------------------------------------
(* Bounds of the model *)

\* lines one child writes to its standard output
MaxLines == 3
\* the versions the release index can answer are VersionOf(0..MaxVer)
MaxVer == 1
\* milliseconds of a minute, scaled down from 60 * 1000 (server.rs:407)
MinuteMs == 50
\* update checks of one run that find an update
MaxChecks == 2

\* let interval: u64 = 50 (server.rs:408)
PollMs == 50

----------------------------------------------------------------------------
(* Versions (version.rs) *)

\* struct Version(u32, u32, u32), a few of them
VersionOf(n) == <<n \div 2, n % 2, (3 * n) % 5>>
Versions == {VersionOf(n) : n \in 0..MaxVer}

\* Option::None
None == <<>>

\* #[derive(PartialOrd, Ord)] on Version: a < b, lexicographic
VersionLess(a, b) ==
    \/ a[1] < b[1]
    \/ a[1] = b[1] /\ a[2] < b[2]
    \/ a[1] = b[1] /\ a[2] = b[2] /\ a[3] < b[3]

\* Server::latest_version: config.factorio.resolve(), None when it fails
LatestVersions == Versions \cup {None}

\* update_available gone wrong, for C21: a failed resolution reported as an
\* available version
updateAvailableOnFailure(current_version, latest) ==
    IF latest # None
    THEN IF VersionLess(current_version, latest) THEN latest ELSE None
    ELSE current_version

\* update_available gone wrong: >= for >, the current version counts as an
\* update
updateAvailableNotOlder(current_version, latest) ==
    IF latest # None
    THEN IF ~VersionLess(latest, current_version) THEN latest ELSE None
    ELSE None

\* Server::update_available, given what latest_version returned
update_available(current_version, latest) ==
    IF latest # None
    THEN IF VersionLess(current_version, latest) THEN latest ELSE None
    ELSE None

\* AutoUpdate and AutoUpdate::live (liveButDisabled: live gone wrong,
\* Startup => true)
AutoUpdate == {"Forced", "Enabled", "Startup", "Disabled"}
liveButDisabled(p) == p \in {"Forced", "Enabled", "Startup"}
live(p) == p \in {"Forced", "Enabled"}

\* config.autoupdate_interval_minutes: no sleep at all, or some
Intervals == {0, 1}

\* iterations of (0..sleep_ms).step_by(interval): ceil(sleep_ms / 50)
PollSteps(minutes) == (MinuteMs * minutes + PollMs - 1) \div PollMs

----------------------------------------------------------------------------
(* The lines the child of the supervised run may write *)

Players == {"alice"}

StateLine(x, y) ==
    <<Num, W("Info"), W("ServerMultiplayerManager.cpp:776:"),
      W("changing"), W("state"), From(x), To(y)>>
EventLine(e, p) == <<Date, Time, Tag(e), W(p), W("joined"), W("the"), W("game")>>
ErrorLine(msg) == <<Num, W("Error"), W("ServerMultiplayerManager.cpp:769:")>> \o msg
GoodbyeLine == <<Num, W("Goodbye")>>

ChildLines ==
    {StateLine("CreatingGame", "InGame"),
     StateLine("InGame", "InGameSavingMap"),
     StateLine("Disconnected", "Closed"),
     EventLine("JOIN", "alice"),
     EventLine("LEAVE", "alice"),
     ErrorLine(PortMsg),
     ErrorLine(<<W("Unexpected"), W("failure")>>),
     StateLine("InGame", "Paused"),
     GoodbyeLine}

\* message::FromServer
StartupComplete == [t |-> "StartupComplete", rs |-> NewRunningServer]
State(rs) == [t |-> "State", rs |-> rs]

\* What the properties observe.  Of the current run: applied, the calls of
\* new_line; shutdowns and getstates, the commands the control loop
\* received; kills, the signals it sent to the child; startups, the StartupComplete it sent; entries, the
\* applied lines that moved the state into InGame; checks, the update checks
\* that found an update; unresolved, whether the last update check failed to
\* resolve a version.  Of the process: spawns, the children spawned; sigs,
\* the interrupts handled; intChild, whether the first interrupt caught
\* reached a running child too; updates and mods, the calls of Server::update
\* and Server::update_mods.
NewRunHist(h) ==
    [h EXCEPT !.applied = 0, !.startups = 0, !.entries = 0,
              !.shutdowns = 0, !.getstates = 0, !.checks = 0,
              !.unresolved = FALSE, !.kills = 0,
              !.spawns = @ + 1]

NoCall == [pre |-> NewRunningServer, line |-> <<>>, res |-> "none"]

Init ==
    /\ interrupted = FALSE
    /\ catching = FALSE
    /\ exit = "running"
    /\ policy \in AutoUpdate
    /\ interval \in Intervals
    /\ current = VersionOf(0)
    /\ pc = "cmd_start"
    /\ tick = 0
    /\ resolved = None
    /\ result = None
    /\ fromServer = <<>>
    /\ cpc = "none"
    /\ state = NewRunningServer
    /\ startup_complete = FALSE
    /\ rpc = "none"
    /\ cur = <<>>
    /\ child = "none"
    /\ emitted = 0
    /\ hist = [applied |-> 0, startups |-> 0, entries |-> 0,
               shutdowns |-> 0, getstates |-> 0, checks |-> 0,
               spawns |-> 0, sigs |-> 0, intChild |-> FALSE,
               updates |-> 0, mods |-> 0,
               unresolved |-> FALSE, kills |-> 0]
    /\ call = NoCall

----------------------------------------------------------------------------
(* The interrupt handler and the orchestrator thread *)

flagVars == <<interrupted, catching>>
cfgVars == <<policy, interval>>
orchVars == <<pc, tick, resolved, result>>
ctlVars == <<cpc, state, startup_complete>>
readerVars == <<rpc, cur>>
childVars == <<child, emitted>>

\* the control-loop thread has ended: its ends of the channels are dropped
CtlEnded == cpc \in {"ok", "err", "panic"}

\* The process ends with the given status: std::process::exit (main.rs:38,
\* 44, 71), main returning ("0"), or a panic of the main thread ("panic").
\* Its threads and their memory are gone; the child is another process
Halt(status) ==
    /\ exit' = status
    /\ pc' = "exited"
    /\ tick' = 0
    /\ resolved' = None
    /\ result' = None
    /\ fromServer' = <<>>
    /\ cpc' = "exited"
    /\ state' = NewRunningServer
    /\ startup_complete' = FALSE
    /\ rpc' = "exited"
    /\ cur' = <<>>

\* Handler gone wrong: SIGINT_CATCH is not read, every first interrupt is
\* caught
HandlerAlwaysCatches(toChild) ==
    /\ exit = "running"
    /\ IF interrupted
       THEN Halt("2") /\ interrupted' = TRUE
       ELSE /\ interrupted' = TRUE
            /\ UNCHANGED <<exit, orchVars, fromServer, ctlVars, readerVars>>
    /\ child' = IF toChild /\ child = "running" THEN "signalled" ELSE child
    /\ hist' = IF catching /\ ~interrupted
               THEN [hist EXCEPT !.sigs = @ + 1,
                                 !.intChild = toChild /\ child = "running"]
               ELSE [hist EXCEPT !.sigs = @ + 1]
    /\ UNCHANGED <<catching, cfgVars, current, emitted, call>>

\* main.rs:33-46, the ctrlc handler.  toChild: the interrupt came from the
\* terminal and reached the child of the same process group as well
Handler(toChild) ==
    /\ exit = "running"
    /\ IF ~catching
       THEN Halt("2") /\ interrupted' = interrupted
       ELSE IF interrupted
            THEN Halt("2") /\ interrupted' = TRUE
            ELSE /\ interrupted' = TRUE
                 /\ UNCHANGED <<exit, orchVars, fromServer, ctlVars, readerVars>>
    /\ child' = IF toChild /\ child = "running" THEN "signalled" ELSE child
    /\ hist' = IF catching /\ ~interrupted
               THEN [hist EXCEPT !.sigs = @ + 1,
                                 !.intChild = toChild /\ child = "running"]
               ELSE [hist EXCEPT !.sigs = @ + 1]
    /\ UNCHANGED <<catching, cfgVars, current, emitted, call>>

\* main.rs:182-185 cmd_start up to the call of Server::run; an Err of
\* Server::get reaches main, which exits with status 1 (main.rs:67-72)
CmdStart ==
    /\ exit = "running"
    /\ pc = "cmd_start"
    /\ \/ /\ catching' = TRUE
          /\ pc' = "run"
          /\ UNCHANGED <<exit, tick, resolved, result, fromServer, ctlVars,
                         readerVars>>
       \/ /\ Halt("1")
          /\ catching' = catching
    /\ UNCHANGED <<interrupted, cfgVars, current, childVars, hist, call>>

\* Server::update(v)? then Server::update_mods()? (server.rs:459-461 and
\* 465-466), v = None when there is nothing to update to.  fail names the
\* call that returns Err; then Server::run returns it and main exits with 1
UpdateAndMods(v, fail) ==
    /\ fail = "update" => v # None
    /\ current' = IF v # None /\ fail # "update" THEN v ELSE current
    /\ hist' = [hist EXCEPT !.updates = IF v # None THEN @ + 1 ELSE @,
                            !.mods = IF fail # "update" THEN @ + 1 ELSE @]
    /\ IF fail = "none"
       THEN /\ pc' = "spawn"
            /\ UNCHANGED <<exit, tick, resolved, result, fromServer, ctlVars,
                           readerVars>>
       ELSE Halt("1")

\* ServerRunStart gone wrong: the policy is not looked at, Disabled updates
\* as the others do
ServerRunStartAnyPolicy ==
    /\ exit = "running"
    /\ pc = "run"
    /\ \E latest \in LatestVersions, fail \in {"none", "update", "mods"} :
          UpdateAndMods(update_available(current, latest), fail)
    /\ UNCHANGED <<flagVars, cfgVars, childVars, call>>

\* server.rs:457-462, Server::run before the first run
ServerRunStart ==
    /\ exit = "running"
    /\ pc = "run"
    /\ IF policy # "Disabled"
       THEN \E latest \in LatestVersions, fail \in {"none", "update", "mods"} :
                UpdateAndMods(update_available(current, latest), fail)
       ELSE /\ pc' = "spawn"
            /\ UNCHANGED <<exit, current, tick, resolved, result, fromServer,
                           ctlVars, readerVars, hist>>
    /\ UNCHANGED <<flagVars, cfgVars, childVars, call>>

\* server.rs:371-386, run_once spawns the child, makes the channels and
\* starts the control-loop thread
RunOnceSpawn ==
    /\ exit = "running"
    /\ pc = "spawn"
    /\ pc' = "startup"
    /\ child' = "running"
    /\ emitted' = 0
    /\ fromServer' = <<>>
    /\ cpc' = "start"
    /\ rpc' = "none"
    /\ hist' = NewRunHist(hist)
    /\ UNCHANGED <<flagVars, exit, cfgVars, current, tick, resolved, result,
                   state, startup_complete, cur, call>>

\* handle.join().expect("Server thread crashed")? (server.rs:393, 451):
\* a panic of the thread aborts, its Err is returned up to main (exit 1)
JoinHandle(onOk) ==
    /\ CtlEnded
    /\ IF cpc = "panic" THEN Halt("panic")
       ELSE IF cpc = "err" THEN Halt("1")
       ELSE onOk

\* RunOnceStartup gone wrong: no wait for the first message, run_once goes
\* on when none is there yet
RunOnceStartupNoWait ==
    /\ exit = "running"
    /\ pc = "startup"
    /\ IF fromServer # <<>> /\ Head(fromServer).t # "StartupComplete"
       THEN Halt("panic")
       ELSE /\ fromServer' = IF fromServer # <<>> THEN Tail(fromServer)
                                                 ELSE fromServer
            /\ pc' = IF live(policy) THEN "poll" ELSE "join"
            /\ tick' = 0
            /\ result' = None
            /\ UNCHANGED <<exit, resolved, ctlVars, readerVars>>
    /\ UNCHANGED <<flagVars, cfgVars, current, childVars, hist, call>>

\* RunOnceStartup gone wrong: a control loop that ended with Ok before
\* StartupComplete makes run_once return Ok(None)
RunOnceStartupEndsQuietly ==
    /\ exit = "running"
    /\ pc = "startup"
    /\ IF fromServer # <<>>
       THEN IF Head(fromServer).t = "StartupComplete"
            THEN /\ fromServer' = Tail(fromServer)
                 /\ pc' = IF live(policy) THEN "poll" ELSE "join"
                 /\ tick' = 0
                 /\ result' = None
                 /\ UNCHANGED <<exit, resolved, ctlVars, readerVars>>
            ELSE Halt("panic")
       ELSE JoinHandle(/\ pc' = "returned"
                       /\ result' = None
                       /\ UNCHANGED <<exit, tick, resolved, fromServer,
                                      ctlVars, readerVars>>)
    /\ UNCHANGED <<flagVars, cfgVars, current, childVars, hist, call>>

\* server.rs:399-405, the first receive: StartupComplete, or try_channel's
\* join when the control loop has ended and dropped its sender
RunOnceStartup ==
    /\ exit = "running"
    /\ pc = "startup"
    /\ IF fromServer # <<>>
       THEN IF Head(fromServer).t = "StartupComplete"
            THEN /\ fromServer' = Tail(fromServer)
                 /\ pc' = IF live(policy) THEN "poll" ELSE "join"
                 /\ tick' = 0
                 /\ result' = None
                 /\ UNCHANGED <<exit, resolved, ctlVars, readerVars>>
            ELSE Halt("panic")                    \* assert!(matches!(..))
       ELSE JoinHandle(Halt("panic"))              \* unreachable!()
    /\ UNCHANGED <<flagVars, cfgVars, current, childVars, hist, call>>

\* PollTick gone wrong: the interrupt exit sends Shutdown before the join
PollTickShutsDown ==
    /\ exit = "running"
    /\ pc = "poll"
    /\ tick < PollSteps(interval)
    /\ IF interrupted
       THEN result' = None /\ pc' = "shutdown" /\ tick' = tick
       ELSE result' = result /\ pc' = pc /\ tick' = tick + 1
    /\ UNCHANGED <<flagVars, exit, cfgVars, current, resolved, fromServer,
                   ctlVars, readerVars, childVars, hist, call>>

\* server.rs:409-415, one iteration of the sleep loop: read SIGINT, then
\* sleep one increment
PollTick ==
    /\ exit = "running"
    /\ pc = "poll"
    /\ tick < PollSteps(interval)
    /\ IF interrupted
       THEN result' = None /\ pc' = "join" /\ tick' = tick
       ELSE result' = result /\ pc' = pc /\ tick' = tick + 1
    /\ UNCHANGED <<flagVars, exit, cfgVars, current, resolved, fromServer,
                   ctlVars, readerVars, childVars, hist, call>>

\* UpdateCheck gone wrong: Forced asks for the state as Enabled does
UpdateCheckAlwaysAsks ==
    /\ exit = "running"
    /\ pc = "poll"
    /\ tick = PollSteps(interval)
    /\ \E latest \in LatestVersions :
          LET avail == update_available(current, latest) IN
          IF avail # None
          THEN /\ hist.checks < MaxChecks
               /\ hist' = [hist EXCEPT !.checks = @ + 1,
                                       !.unresolved = (latest = None)]
               /\ resolved' = avail
               /\ pc' = "getstate"
               /\ tick' = tick
          ELSE /\ hist' = [hist EXCEPT !.unresolved = (latest = None)]
               /\ resolved' = resolved
               /\ pc' = "poll"
               /\ tick' = 0
    /\ UNCHANGED <<flagVars, exit, cfgVars, current, result, fromServer,
                   ctlVars, readerVars, childVars, call>>

\* server.rs:417-429, the update check that follows the sleep loop, up to
\* the send it decides on
UpdateCheck ==
    /\ exit = "running"
    /\ pc = "poll"
    /\ tick = PollSteps(interval)
    /\ \E latest \in LatestVersions :
          LET avail == update_available(current, latest) IN
          IF avail # None
          THEN /\ hist.checks < MaxChecks
               /\ hist' = [hist EXCEPT !.checks = @ + 1,
                                       !.unresolved = (latest = None)]
               /\ resolved' = avail
               /\ pc' = IF policy = "Forced" THEN "shutdown" ELSE "getstate"
               /\ tick' = tick
          ELSE /\ hist' = [hist EXCEPT !.unresolved = (latest = None)]
               /\ resolved' = resolved
               /\ pc' = "poll"
               /\ tick' = 0
    /\ UNCHANGED <<flagVars, exit, cfgVars, current, result, fromServer,
                   ctlVars, readerVars, childVars, call>>

\* a send on tx_to that finds the receiver dropped:
\* .expect("Server thread crashed") (server.rs:422, 429, 437)
SendFails ==
    /\ exit = "running"
    /\ pc \in {"shutdown", "getstate"}
    /\ CtlEnded
    /\ Halt("panic")
    /\ UNCHANGED <<flagVars, cfgVars, current, childVars, hist, call>>

\* RecvState gone wrong: the players of the snapshot are not looked at
RecvStateAnyPlayers ==
    /\ exit = "running"
    /\ pc = "recv_state"
    /\ IF fromServer # <<>>
       THEN IF Head(fromServer).t = "State"
            THEN /\ fromServer' = Tail(fromServer)
                 /\ pc' = "shutdown" /\ tick' = tick
                 /\ UNCHANGED <<exit, resolved, result, ctlVars, readerVars>>
            ELSE Halt("panic")
       ELSE /\ CtlEnded
            /\ Halt("panic")
    /\ UNCHANGED <<flagVars, cfgVars, current, childVars, hist, call>>

\* server.rs:431-445, the reply to GetState
RecvState ==
    /\ exit = "running"
    /\ pc = "recv_state"
    /\ IF fromServer # <<>>
       THEN IF Head(fromServer).t = "State"
            THEN /\ fromServer' = Tail(fromServer)
                 /\ IF Head(fromServer).rs.players_online = {}
                    THEN pc' = "shutdown" /\ tick' = tick
                    ELSE pc' = "poll" /\ tick' = 0
                 /\ UNCHANGED <<exit, resolved, result, ctlVars, readerVars>>
            ELSE Halt("panic")                     \* unreachable!()
       ELSE /\ CtlEnded                \* .expect("Server thread crashed")
            /\ Halt("panic")
    /\ UNCHANGED <<flagVars, cfgVars, current, childVars, hist, call>>

\* RunOnceJoin gone wrong: run_once returns without joining the thread
RunOnceJoinNoWait ==
    /\ exit = "running"
    /\ pc = "join"
    /\ pc' = "returned"
    /\ UNCHANGED <<exit, tick, resolved, result, fromServer, ctlVars,
                   readerVars>>
    /\ UNCHANGED <<flagVars, cfgVars, current, childVars, hist, call>>

\* server.rs:451-452, the join that ends run_once
RunOnceJoin ==
    /\ exit = "running"
    /\ pc = "join"
    /\ JoinHandle(/\ pc' = "returned"
                  /\ UNCHANGED <<exit, tick, resolved, result, fromServer,
                                 ctlVars, readerVars>>)
    /\ UNCHANGED <<flagVars, cfgVars, current, childVars, hist, call>>

\* ServerRunNext gone wrong: the loop goes round again when run_once
\* returned no pending update
ServerRunNextRetries ==
    /\ exit = "running"
    /\ pc = "returned"
    /\ IF result # None
       THEN \E fail \in {"none", "update", "mods"} : UpdateAndMods(result, fail)
       ELSE /\ pc' = "spawn"
            /\ UNCHANGED <<exit, tick, resolved, result, fromServer, ctlVars,
                           readerVars, current, hist>>
    /\ UNCHANGED <<flagVars, cfgVars, childVars, call>>

\* server.rs:464-469, Server::run after run_once returned Ok(result);
\* Ok(()) reaches main, which returns (exit status 0)
ServerRunNext ==
    /\ exit = "running"
    /\ pc = "returned"
    /\ IF result # None
       THEN \E fail \in {"none", "update", "mods"} : UpdateAndMods(result, fail)
       ELSE Halt("0") /\ current' = current /\ hist' = hist
    /\ UNCHANGED <<flagVars, cfgVars, childVars, call>>

----------------------------------------------------------------------------
(* The control-loop thread, server_process::run *)

\* CtlStart gone wrong: the snapshot of the run before is kept
CtlStartKeepsSnapshot ==
    /\ exit = "running"
    /\ cpc = "start"
    /\ cpc' = "select"
    /\ state' = state
    /\ startup_complete' = FALSE
    /\ rpc' = "read"
    /\ cur' = <<>>
    /\ UNCHANGED <<flagVars, exit, cfgVars, current, orchVars, fromServer,
                   childVars, hist, call>>

\* server_process.rs:126-131: the line channel, the reader thread, the
\* snapshot and startup_complete
CtlStart ==
    /\ exit = "running"
    /\ cpc = "start"
    /\ cpc' = "select"
    /\ state' = NewRunningServer
    /\ startup_complete' = FALSE
    /\ rpc' = "read"
    /\ cur' = <<>>
    /\ UNCHANGED <<flagVars, exit, cfgVars, current, orchVars, fromServer,
                   childVars, hist, call>>

\* LoopEnd gone wrong: startup_complete is not read, StartupComplete is sent
\* at the end of every iteration that finds the state InGame
LoopEndEveryInGame(st, q, h) ==
    LET first == st.state = "InGame" IN
    /\ startup_complete' = (startup_complete \/ first)
    /\ fromServer' = IF first THEN Append(q, StartupComplete) ELSE q
    /\ hist' = IF first THEN [h EXCEPT !.startups = @ + 1] ELSE h
    /\ cpc' = IF st.state = "Closed" THEN "drain" ELSE "select"

\* LoopEnd gone wrong: no break on Closed
LoopEndPastClosed(st, q, h) ==
    LET first == ~startup_complete /\ st.state = "InGame" IN
    /\ startup_complete' = (startup_complete \/ first)
    /\ fromServer' = IF first THEN Append(q, StartupComplete) ELSE q
    /\ hist' = IF first THEN [h EXCEPT !.startups = @ + 1] ELSE h
    /\ cpc' = "select"

\* LoopEnd gone wrong: the loop breaks on the failure states as on Closed
LoopEndOnFailure(st, q, h) ==
    LET first == ~startup_complete /\ st.state = "InGame" IN
    /\ startup_complete' = (startup_complete \/ first)
    /\ fromServer' = IF first THEN Append(q, StartupComplete) ELSE q
    /\ hist' = IF first THEN [h EXCEPT !.startups = @ + 1] ELSE h
    /\ cpc' = IF st.state \in {"Closed", "Failed", "InitializationFailed"}
              THEN "drain" ELSE "select"

\* server_process.rs:154-161, the end of an iteration of the loop that did
\* not break: st is the snapshot, q the reply channel and h the history
\* the iteration has made so far.  The reply channel is unbounded and the
\* orchestrator holds its receiver until run_once ends, so the send succeeds
LoopEnd(st, q, h) ==
    LET first == ~startup_complete /\ st.state = "InGame" IN
    /\ startup_complete' = (startup_complete \/ first)
    /\ fromServer' = IF first THEN Append(q, StartupComplete) ELSE q
    /\ hist' = IF first THEN [h EXCEPT !.startups = @ + 1] ELSE h
    /\ cpc' = IF st.state = "Closed" THEN "drain" ELSE "select"

\* AfterSend gone wrong: done is not looked at, the reader reads on after the
\* Goodbye line
AfterSendReadsOn ==
    /\ rpc' = "read"
    /\ cur' = <<>>

\* stdout_thread after tx.send(Some(line)) returned (server_process.rs:115-120)
AfterSend ==
    /\ rpc' = IF ReGoodbyeMatches(cur) THEN "last" ELSE "read"
    /\ cur' = <<>>

\* CtlShutdown gone wrong: no break after the signal, the iteration ends as
\* the others do and the loop waits on
CtlShutdownStaysInLoop ==
    /\ exit = "running"
    /\ pc = "shutdown"
    /\ cpc = "select"
    /\ child' = IF child = "running" THEN "signalled" ELSE child   \* kill(SIGINT)
    /\ cpc' = IF state.state = "Closed" THEN "drain" ELSE "select"
    /\ result' = resolved
    /\ pc' = "join"
    /\ hist' = [hist EXCEPT !.shutdowns = @ + 1, !.kills = @ + 1]
    /\ UNCHANGED <<flagVars, exit, cfgVars, current, tick, resolved, fromServer,
                   state, startup_complete, readerVars, emitted, call>>

\* server_process.rs:136-143, Shutdown received from the rendezvous send of
\* server.rs:420-424 or 435-439, which then returns
CtlShutdown ==
    /\ exit = "running"
    /\ pc = "shutdown"
    /\ cpc = "select"
    /\ child' = IF child = "running" THEN "signalled" ELSE child   \* kill(SIGINT)
    /\ cpc' = "drain"
    /\ result' = resolved
    /\ pc' = "join"
    /\ hist' = [hist EXCEPT !.shutdowns = @ + 1, !.kills = @ + 1]
    /\ UNCHANGED <<flagVars, exit, cfgVars, current, tick, resolved, fromServer,
                   state, startup_complete, readerVars, emitted, call>>

\* CtlGetState gone wrong: the reply is sent twice
CtlGetStateAnswersTwice ==
    /\ exit = "running"
    /\ pc = "getstate"
    /\ cpc = "select"
    /\ pc' = "recv_state"
    /\ LoopEnd(state, fromServer \o <<State(state), State(state)>>,
               [hist EXCEPT !.getstates = @ + 1])
    /\ UNCHANGED <<flagVars, exit, cfgVars, current, tick, resolved, result,
                   state, readerVars, childVars, call>>

\* CtlGetState gone wrong: the reply carries a new snapshot, not a copy of
\* the state
CtlGetStateSendsNew ==
    /\ exit = "running"
    /\ pc = "getstate"
    /\ cpc = "select"
    /\ pc' = "recv_state"
    /\ LoopEnd(state, Append(fromServer, State(NewRunningServer)),
               [hist EXCEPT !.getstates = @ + 1])
    /\ UNCHANGED <<flagVars, exit, cfgVars, current, tick, resolved, result,
                   state, readerVars, childVars, call>>

\* server_process.rs:144-146, GetState received from the rendezvous send of
\* server.rs:427-429, which then returns
CtlGetState ==
    /\ exit = "running"
    /\ pc = "getstate"
    /\ cpc = "select"
    /\ pc' = "recv_state"
    /\ LoopEnd(state, Append(fromServer, State(state)),
               [hist EXCEPT !.getstates = @ + 1])
    /\ UNCHANGED <<flagVars, exit, cfgVars, current, tick, resolved, result,
                   state, readerVars, childVars, call>>

\* server_process.rs:148-149, a line received from the reader and applied
CtlLine ==
    /\ exit = "running"
    /\ cpc = "select"
    /\ rpc = "send"
    /\ AfterSend
    /\ LET r == new_line(state, cur)
           h == [hist EXCEPT
                    !.applied = @ + 1,
                    !.entries = IF state.state # "InGame" /\ r.rs.state = "InGame"
                                THEN @ + 1 ELSE @]
       IN  /\ state' = r.rs
           /\ IF r.res = "Ok"
              THEN LoopEnd(r.rs, fromServer, h)
              ELSE /\ cpc' = IF r.res = "PortUnavailable" THEN "err" ELSE "panic"
                   /\ hist' = h
                   /\ UNCHANGED <<startup_complete, fromServer>>
    /\ UNCHANGED <<flagVars, exit, cfgVars, current, orchVars, childVars, call>>

\* server_process.rs:150, the end-of-stream marker received
CtlNone ==
    /\ exit = "running"
    /\ cpc = "select"
    /\ rpc = "last"
    /\ cpc' = "drain"
    /\ rpc' = "done"
    /\ UNCHANGED <<flagVars, exit, cfgVars, current, orchVars, fromServer,
                   state, startup_complete, cur, childVars, hist, call>>

\* CtlDrain gone wrong: one receive, not a loop of them
CtlDrainOnce ==
    /\ exit = "running"
    /\ cpc = "drain"
    /\ \/ /\ rpc = "send"
          /\ AfterSend
          /\ cpc' = "join"
       \/ /\ rpc = "last"
          /\ rpc' = "done"
          /\ cpc' = "join"
          /\ cur' = cur
       \/ /\ rpc = "done"
          /\ cpc' = "join"
          /\ UNCHANGED readerVars
    /\ UNCHANGED <<flagVars, exit, cfgVars, current, orchVars, fromServer,
                   state, startup_complete, childVars, hist, call>>

\* server_process.rs:165, while let Ok(Some(_)) = rx_stdout.recv() {}
CtlDrain ==
    /\ exit = "running"
    /\ cpc = "drain"
    /\ \/ /\ rpc = "send"
          /\ AfterSend
          /\ cpc' = cpc
       \/ /\ rpc = "last"
          /\ rpc' = "done"
          /\ cpc' = "join"
          /\ cur' = cur
       \/ /\ rpc = "done"
          /\ cpc' = "join"
          /\ UNCHANGED readerVars
    /\ UNCHANGED <<flagVars, exit, cfgVars, current, orchVars, fromServer,
                   state, startup_complete, childVars, hist, call>>

\* server_process.rs:166, stdout_handle.join()
CtlJoin ==
    /\ exit = "running"
    /\ cpc = "join"
    /\ rpc = "done"
    /\ cpc' = "wait"
    /\ UNCHANGED <<flagVars, exit, cfgVars, current, orchVars, fromServer,
                   state, startup_complete, readerVars, childVars, hist, call>>

\* CtlWait gone wrong: the exit status is not looked at
CtlWaitAnyStatus ==
    /\ exit = "running"
    /\ cpc = "wait"
    /\ child \in {"ok", "failed"}
    /\ cpc' = "ok"
    /\ UNCHANGED <<flagVars, exit, cfgVars, current, orchVars, fromServer,
                   state, startup_complete, readerVars, childVars, hist, call>>

\* server_process.rs:168-171, child.wait() and the assert on its status
CtlWait ==
    /\ exit = "running"
    /\ cpc = "wait"
    /\ child \in {"ok", "failed"}
    /\ cpc' = IF child = "ok" THEN "ok" ELSE "panic"
    /\ UNCHANGED <<flagVars, exit, cfgVars, current, orchVars, fromServer,
                   state, startup_complete, readerVars, childVars, hist, call>>

----------------------------------------------------------------------------
(* The reader thread, stdout_thread, and the child process *)

\* server_process.rs:109-111, the blocking read of the next line returns
\* the line the child writes.  The pipe between them is a FIFO buffer that
\* the reader alone reads, so a line counts as written when it is read
ReaderRead(line) ==
    /\ exit = "running"
    /\ rpc = "read"
    /\ child \in {"running", "signalled"}
    /\ emitted < MaxLines
    /\ emitted' = emitted + 1
    /\ cur' = line
    /\ rpc' = "send"
    /\ UNCHANGED <<flagVars, exit, cfgVars, current, orchVars, fromServer,
                   ctlVars, child, hist, call>>

\* server_process.rs:109, filter_map(|line| line.ok()): the line the child
\* wrote cannot be read (it is not valid UTF-8); lines() yields the Err,
\* which is dropped, and the reader goes on to the next line
ReaderReadFails ==
    /\ exit = "running"
    /\ rpc = "read"
    /\ child \in {"running", "signalled"}
    /\ emitted < MaxLines
    /\ emitted' = emitted + 1
    /\ UNCHANGED <<flagVars, exit, cfgVars, current, orchVars, fromServer,
                   ctlVars, readerVars, child, hist, call>>

\* server_process.rs:109, reader.lines() ends: the child has exited, which
\* closes its end of the pipe
ReaderEof ==
    /\ exit = "running"
    /\ rpc = "read"
    /\ child \in {"ok", "failed"}
    /\ rpc' = "last"
    /\ UNCHANGED <<flagVars, exit, cfgVars, current, orchVars, fromServer,
                   ctlVars, cur, childVars, hist, call>>

\* server_process.rs:113 and 120, let _ = tx.send(..) when the control loop
\* has ended and dropped the receiver: the error is ignored
ReaderSendFails ==
    /\ exit = "running"
    /\ CtlEnded
    /\ \/ rpc = "send" /\ AfterSend
       \/ rpc = "last" /\ rpc' = "done" /\ cur' = cur
    /\ UNCHANGED <<flagVars, exit, cfgVars, current, orchVars, fromServer,
                   ctlVars, childVars, hist, call>>

\* the child exits, successfully or not
ChildExit(ok) ==
    /\ exit = "running"
    /\ child \in {"running", "signalled"}
    /\ child' = IF ok THEN "ok" ELSE "failed"
    /\ UNCHANGED <<flagVars, exit, cfgVars, current, orchVars, fromServer,
                   ctlVars, readerVars, emitted, hist, call>>

----------------------------------------------------------------------------

Next ==
    \/ \E toChild \in BOOLEAN : Handler(toChild)
    \/ CmdStart
    \/ ServerRunStart
    \/ RunOnceSpawn
    \/ RunOnceStartup
    \/ PollTick
    \/ UpdateCheck
    \/ SendFails
    \/ RecvState
    \/ RunOnceJoin
    \/ ServerRunNext
    \/ CtlStart
    \/ CtlShutdown
    \/ CtlGetState
    \/ CtlLine
    \/ CtlNone
    \/ CtlDrain
    \/ CtlJoin
    \/ CtlWait
    \/ \E line \in ChildLines : ReaderRead(line)
    \/ ReaderReadFails
    \/ ReaderEof
    \/ ReaderSendFails
    \/ \E ok \in BOOLEAN : ChildExit(ok)

Spec == Init /\ [][Next]_vars

\* The configuration of the runs that termination is checked on: Enabled,
\* the policy under which both commands reach the control loop, with an
\* interval of one minute
InitLive == Init /\ policy = "Enabled" /\ interval = 1

\* The supervised run with the scheduling that termination rests on: the
\* control loop and the reader are threads that run when they can (the drain
\* receive, the join, the reader's end of stream and its ignored sends), and
\* the child's output ends, which is what its exit means here
SpecLive ==
    /\ InitLive /\ [][Next]_vars
    /\ WF_vars(CtlDrain)
    /\ WF_vars(CtlJoin)
    /\ WF_vars(ReaderEof)
    /\ WF_vars(ReaderSendFails)
    /\ WF_vars(ChildExit(TRUE) \/ ChildExit(FALSE))

\* the steps of the main thread from cmd_start on
OrchestratorStep ==
    \/ CmdStart
    \/ ServerRunStart
    \/ RunOnceSpawn
    \/ RunOnceStartup
    \/ PollTick
    \/ UpdateCheck
    \/ SendFails
    \/ RecvState
    \/ RunOnceJoin
    \/ ServerRunNext

\* SpecLive with the main thread running when it can, too
SpecFair == SpecLive /\ WF_vars(OrchestratorStep)

\* The supervised run of a child that logs failures: the same steps, the
\* lines the child writes drawn from FailingLines
FailingLines ==
    {StateLine("CreatingGame", "InGame"),
     StateLine("CreatingGame", "InitializationFailed"),
     StateLine("InGame", "Failed"),
     StateLine("Disconnected", "Closed"),
     EventLine("JOIN", "alice"),
     ErrorLine(PortMsg)}

NextFailing ==
    \/ \E toChild \in BOOLEAN : Handler(toChild)
    \/ CmdStart
    \/ ServerRunStart
    \/ RunOnceSpawn
    \/ RunOnceStartup
    \/ PollTick
    \/ UpdateCheck
    \/ SendFails
    \/ RecvState
    \/ RunOnceJoin
    \/ ServerRunNext
    \/ CtlStart
    \/ CtlShutdown
    \/ CtlGetState
    \/ CtlLine
    \/ CtlNone
    \/ CtlDrain
    \/ CtlJoin
    \/ CtlWait
    \/ \E line \in FailingLines : ReaderRead(line)
    \/ ReaderReadFails
    \/ ReaderEof
    \/ ReaderSendFails
    \/ \E ok \in BOOLEAN : ChildExit(ok)

SpecFailing == Init /\ [][NextFailing]_vars

----------------------------------------------------------------------------
(* new_line on its own: every snapshot, a larger set of lines *)

ApplyPlayers == {"alice", "bob"}

Snapshots ==
    [state : RunningServerState, players_online : SUBSET ApplyPlayers]

\* "Info changing state from(x) to(y)", with nothing between Info and changing
ShortStateLine(x, y) ==
    <<Num, W("Info"), W("changing"), W("state"), From(x), To(y)>>

ApplyLines ==
    {StateLine(x, y) : x \in {"Start", "Closed", "Bogus"},
                       y \in RunningServerState \cup {"Bogus", "ingame"}}
    \cup {ShortStateLine("Ready", y) : y \in {"InGame", "Closed"}}
    \cup {StateLine("Ready", "InGame") \o <<W("again")>>,
          StateLine("Ready", "InGame") \o <<To("Closed")>>,
          <<Num, W("Error")>> \o SubSeq(StateLine("Ready", "InGame"), 3, 7),
          <<Num, W("Warning")>> \o SubSeq(StateLine("Ready", "InGame"), 3, 7)}
    \cup {EventLine(e, p) : e \in {"JOIN", "LEAVE", "CHAT"}, p \in ApplyPlayers}
    \cup {ErrorLine(PortMsg),
          ErrorLine(<<W("Unexpected"), W("failure")>>),
          ErrorLine(<<W("extra")>> \o PortMsg),
          <<Num, W("Error"), W("alone")>>,
          <<Date, Time, Tag("JOIN")>>,
          <<Date, Time, Tag("JOIN"), Blank>>,
          <<Date, Time, Tag("LEAVE"), Blank>>,
          <<Date, Time, Tag("CHAT"), Blank>>,
          GoodbyeLine,
          <<W("Loading"), W("mod"), W("base")>>,
          <<>>}

InitApply ==
    /\ interrupted = FALSE
    /\ catching = FALSE
    /\ exit = "running"
    /\ policy = "Disabled"
    /\ interval = 0
    /\ current = VersionOf(0)
    /\ pc = "cmd_start"
    /\ tick = 0
    /\ resolved = None
    /\ result = None
    /\ fromServer = <<>>
    /\ cpc = "none"
    /\ state \in Snapshots
    /\ startup_complete = FALSE
    /\ rpc = "none"
    /\ cur = <<>>
    /\ child = "none"
    /\ emitted = 0
    /\ hist = [applied |-> 0, startups |-> 0, entries |-> 0,
               shutdowns |-> 0, getstates |-> 0, checks |-> 0,
               spawns |-> 0, sigs |-> 0, intChild |-> FALSE,
               updates |-> 0, mods |-> 0,
               unresolved |-> FALSE, kills |-> 0]
    /\ call = NoCall

\* one call state.new_line(&line); a panic unwinds, nothing is called after it
Apply(line) ==
    /\ call.res # "panic"
    /\ LET r == new_line(state, line) IN
       /\ state' = r.rs
       /\ call' = [pre |-> state, line |-> line, res |-> r.res]
    /\ UNCHANGED <<flagVars, exit, cfgVars, current, orchVars, fromServer,
                   cpc, startup_complete, readerVars, childVars, hist>>

NextApply == \E line \in ApplyLines : Apply(line)

SpecApply == InitApply /\ [][NextApply]_vars

----------------------------------------------------------------------------
(* new_line called again and again on one snapshot: call.prev keeps the
   call before the last one *)

EventLines ==
    {EventLine(e, p) : e \in {"JOIN", "LEAVE", "CHAT"}, p \in ApplyPlayers}
    \cup {StateLine("InGame", "InGameSavingMap")}

InitEvents ==
    /\ interrupted = FALSE
    /\ catching = FALSE
    /\ exit = "running"
    /\ policy = "Disabled"
    /\ interval = 0
    /\ current = VersionOf(0)
    /\ pc = "cmd_start"
    /\ tick = 0
    /\ resolved = None
    /\ result = None
    /\ fromServer = <<>>
    /\ cpc = "none"
    /\ state \in Snapshots
    /\ startup_complete = FALSE
    /\ rpc = "none"
    /\ cur = <<>>
    /\ child = "none"
    /\ emitted = 0
    /\ hist = [applied |-> 0, startups |-> 0, entries |-> 0,
               shutdowns |-> 0, getstates |-> 0, checks |-> 0,
               spawns |-> 0, sigs |-> 0, intChild |-> FALSE,
               updates |-> 0, mods |-> 0,
               unresolved |-> FALSE, kills |-> 0]
    /\ call = [pre |-> state, line |-> <<>>, res |-> "none", prev |-> NoCall]

\* state.new_line(&line) after the calls before it
ApplyAfter(line) ==
    /\ call.res # "panic"
    /\ LET r == new_line(state, line) IN
       /\ state' = r.rs
       /\ call' = [pre |-> state, line |-> line, res |-> r.res,
                   prev |-> [pre |-> call.pre, line |-> call.line,
                             res |-> call.res]]
    /\ UNCHANGED <<flagVars, exit, cfgVars, current, orchVars, fromServer,
                   cpc, startup_complete, readerVars, childVars, hist>>

NextEvents == \E line \in EventLines : ApplyAfter(line)

SpecEvents == InitEvents /\ [][NextEvents]_vars

-----------------------------------------------------------------------------
(* Version2::includes alone (SpecVersion): call holds the two-segment
   version, the three-segment version and what the call came to *)

\* The largest value of a segment, standing for u32::MAX: the segments are
\* words of this range and self.1 + 1 is computed in it
MaxSeg == 3

Segs == 0 .. MaxSeg

\* Version2 and Version as tuples of segments
Version2s == Segs \X Segs

Version3s == Segs \X Segs \X Segs

\* Version2::extend_start
extend_start(v2) == <<v2[1], v2[2], 0>>

\* whether self.1 + 1 in Version2::extend_after overflows the word
ExtendAfterOverflows(v2) == v2[2] + 1 > MaxSeg

\* Version2::extend_after where the addition wraps (no overflow checks)
extend_after(v2) == <<v2[1], (v2[2] + 1) % (MaxSeg + 1), 0>>

\* Version2::includes, the outcomes of a call: start <= version is evaluated
\* first and && stops at false; else extend_after is computed, and where its
\* addition overflows the build decides: a panic with overflow checks (debug
\* profile), the wrapped value without them (release profile)
includes(v2, version) ==
    LET start == extend_start(v2) IN
    IF ~(start = version \/ VersionLess(start, version))
    THEN {"false"}
    ELSE IF ExtendAfterOverflows(v2)
    THEN {"panic",
          IF VersionLess(version, extend_after(v2)) THEN "true" ELSE "false"}
    ELSE {IF VersionLess(version, extend_after(v2)) THEN "true" ELSE "false"}

InitVersion ==
    /\ interrupted = FALSE
    /\ catching = FALSE
    /\ exit = "running"
    /\ policy = "Disabled"
    /\ interval = 0
    /\ current = VersionOf(0)
    /\ pc = "cmd_start"
    /\ tick = 0
    /\ resolved = None
    /\ result = None
    /\ fromServer = <<>>
    /\ cpc = "none"
    /\ state = NewRunningServer
    /\ startup_complete = FALSE
    /\ rpc = "none"
    /\ cur = <<>>
    /\ child = "none"
    /\ emitted = 0
    /\ hist = [applied |-> 0, startups |-> 0, entries |-> 0,
               shutdowns |-> 0, getstates |-> 0, checks |-> 0,
               spawns |-> 0, sigs |-> 0, intChild |-> FALSE,
               updates |-> 0, mods |-> 0,
               unresolved |-> FALSE, kills |-> 0]
    /\ \E v2 \in Version2s, version \in Version3s :
          call = [v2 |-> v2, version |-> version, res |-> "none"]

\* one call of Version2::includes on the chosen versions
Includes ==
    /\ call.res = "none"
    /\ \E r \in includes(call.v2, call.version) : call' = [call EXCEPT !.res = r]
    /\ UNCHANGED <<flagVars, exit, cfgVars, current, orchVars, fromServer,
                   ctlVars, readerVars, childVars, hist>>

NextVersion == Includes

SpecVersion == InitVersion /\ [][NextVersion]_vars

----------------------------------------------------------------------------
(* Properties of the supervised run (Spec) and of new_line (SpecApply) *)

\* C1: in every run of the control loop StartupComplete is sent at most
\* once, and it is sent in the iteration that applies the first line leaving
\* the state InGame: the count of StartupComplete sent is 1 as soon as one
\* applied line has moved the state into InGame and 0 before, however often
\* the state comes back to InGame later.  (The iteration is one step: the
\* counts of the applied entries into InGame and of the messages sent
\* change together.)
StartupCompleteOnceOnFirstInGame ==
    /\ hist.startups = (IF hist.entries >= 1 THEN 1 ELSE 0)
    /\ cpc \in {"select", "drain", "join", "wait"}
          => (startup_complete <=> hist.entries >= 1)

\* InGame, InGameSavingMap, InGame: two entries, one StartupComplete
StartupCompleteOnceReentered ==
    /\ hist.entries >= 2
    /\ hist.startups = 1
    /\ state.state = "InGame"

\* A state-transition line "... changing state from(X) to(Y)": the stamp,
\* Info, and the four tokens that end it, with no earlier place where
\* "changing state from(..) to(" starts
IsTransitionLine(line) ==
    /\ Len(line) >= 6
    /\ line[1].k = "num"
    /\ line[2] = W("Info")
    /\ line[Len(line) - 3] = W("changing")
    /\ line[Len(line) - 2] = W("state")
    /\ line[Len(line) - 1].k = "from"
    /\ line[Len(line)].k = "to"
    /\ \A i \in 3..(Len(line) - 4) :
          ~(/\ line[i] = W("changing")
            /\ line[i + 1] = W("state")
            /\ line[i + 2].k = "from"
            /\ line[i + 3].k = "to")

\* C2: a state-transition line "from(X) to(Y)" with Y one of the twelve
\* lifecycle names makes new_line return Ok and set state to Y, whatever X
\* and the previous state are, and leaves players_online unchanged.
TransitionSetsStateToY ==
    (/\ call.res # "none"
     /\ IsTransitionLine(call.line)
     /\ call.line[Len(call.line)].v \in RunningServerState)
    => /\ call.res = "Ok"
       /\ state.state = call.line[Len(call.line)].v
       /\ state.players_online = call.pre.players_online

\* from(Start) to(InGame) applied to a Closed snapshot with a player online
TransitionFromClosedApplied ==
    /\ call.line = StateLine("Start", "InGame")
    /\ call.pre = [state |-> "Closed", players_online |-> {"alice"}]
    /\ state = [state |-> "InGame", players_online |-> {"alice"}]

\* C3: once the control loop has applied a line that set the state to
\* Closed, in that run it applies no further line and services no further
\* Shutdown or GetState, even when the reader still has lines to deliver.
ClosedStopsProcessing ==
    [][(state.state = "Closed" /\ hist'.spawns = hist.spawns)
       => /\ hist'.applied = hist.applied
          /\ hist'.shutdowns = hist.shutdowns
          /\ hist'.getstates = hist.getstates
          /\ (exit' = "running" => state' = state)]_vars

\* the state is Closed, the reader has been joined, and the child wrote
\* more lines than were applied: the rest was drained
ClosedRestDrained ==
    /\ state.state = "Closed"
    /\ cpc = "wait"
    /\ emitted > hist.applied

\* C4: under Enabled an update check that finds a newer version is followed
\* by the send of GetState; a State reply with players online leads back to
\* polling with no Shutdown sent, a reply with no player online leads to the
\* send of Shutdown; Shutdown is sent on no other way, and run_once then
\* returns the version the check resolved.
EnabledAsksThenDecides ==
    [][policy = "Enabled" =>
        /\ hist'.checks = hist.checks + 1
              => pc' = "getstate" /\ resolved' # None
        /\ (pc' = "getstate" /\ pc # "getstate")
              => pc = "poll" /\ hist'.checks = hist.checks + 1
        /\ (pc = "recv_state" /\ pc' \notin {"recv_state", "exited"})
              => IF Head(fromServer).rs.players_online # {}
                 THEN pc' = "poll" /\ hist'.shutdowns = hist.shutdowns
                 ELSE pc' = "shutdown"
        /\ (pc' = "shutdown" /\ pc # "shutdown")
              => /\ pc = "recv_state"
                 /\ Head(fromServer).rs.players_online = {}
        /\ hist'.shutdowns = hist.shutdowns + 1
              => pc = "shutdown" /\ pc' = "join" /\ result' = resolved
        /\ (pc = "join" /\ pc' = "returned" /\ hist.shutdowns > 0)
              => result' = resolved /\ result' # None]_vars

\* Enabled: a first GetState found players and the run went on, a second
\* found none, and run_once returned the pending version
EnabledWaitedForPlayers ==
    /\ policy = "Enabled"
    /\ pc = "returned"
    /\ result # None
    /\ hist.getstates = 2
    /\ hist.shutdowns = 1

\* C5: under Forced an update check that finds a newer version is followed
\* by the send of Shutdown, no GetState is ever sent, whatever players_online
\* contains, and run_once then returns the version the check resolved.
ForcedShutsDownUnasked ==
    [][policy = "Forced" =>
        /\ hist'.getstates = 0
        /\ pc' \notin {"getstate", "recv_state"}
        /\ hist'.checks = hist.checks + 1
              => pc' = "shutdown" /\ resolved' # None
        /\ hist'.shutdowns = hist.shutdowns + 1
              => pc = "shutdown" /\ pc' = "join" /\ result' = resolved
        /\ (pc = "join" /\ pc' = "returned" /\ hist.shutdowns > 0)
              => result' = resolved /\ result' # None]_vars

\* Forced: Shutdown sent with a player online, the pending version returned
ForcedWithPlayersOnline ==
    /\ policy = "Forced"
    /\ pc = "returned"
    /\ result # None
    /\ hist.shutdowns = 1
    /\ state.players_online # {}

\* C6: with the interrupted flag set during the poll-sleep loop (some sleep,
\* interval > 0), also during its last increment and with an update
\* available, the only way on is out of the loop with no pending update:
\* no command is sent, run_once goes to its join with result None.
InterruptedPollReturnsNone ==
    [][(pc = "poll" /\ interrupted /\ interval > 0 /\ exit' = "running")
       => \/ pc' = "poll"
          \/ pc' = "join" /\ result' = None]_vars

\* C7: on every exit from the autoupdate loop of run_once, by interrupt as
\* by a restart decision, Shutdown has been sent to the control loop before
\* the orchestrator joins the control-loop thread.
ShutdownSentBeforeJoin ==
    (live(policy) /\ pc = "join") => hist.shutdowns >= 1

\* C7 amended: at the join that follows the autoupdate loop, either the loop
\* was left by a restart decision, exactly one Shutdown has been sent and the
\* resolved version is pending, or it was left by interrupt, no Shutdown has
\* been sent and nothing is pending.
ShutdownSentOnRestartOnly ==
    (live(policy) /\ pc = "join")
    => \/ hist.shutdowns = 1 /\ result = resolved /\ result # None
       \/ hist.shutdowns = 0 /\ result = None /\ interrupted

\* the loop left by interrupt: at the join, the control loop still selecting,
\* never told to shut down
JoinAfterInterruptUncommanded ==
    /\ live(policy)
    /\ pc = "join"
    /\ interrupted
    /\ hist.shutdowns = 0
    /\ cpc = "select"

\* C8: after a first interrupt caught while a child was running, which the
\* child received too and on which it exited successfully (the control loop
\* saw the success), the process does not abort: it runs on, or ends with
\* Ok (status 0), or is ended by a second interrupt (status 2).
CaughtInterruptEndsGracefully ==
    [][(interrupted /\ hist.intChild /\ child = "ok" /\ cpc = "ok")
       => exit' \in {"running", "0", "2"}]_vars

\* C9: an interrupt handled while catching is false ends the process with
\* status 2; while catching is true and interrupted false it sets
\* interrupted and the process runs on; while both are true it ends the
\* process with status 2.  No other step changes interrupted.
HandlerThreeCases ==
    [][/\ hist'.sigs # hist.sigs
          => IF ~catching THEN exit' = "2" /\ interrupted' = interrupted
             ELSE IF ~interrupted THEN interrupted' /\ exit' = "running"
             ELSE exit' = "2"
       /\ interrupted' # interrupted
          => hist'.sigs # hist.sigs /\ interrupted']_vars

\* a first interrupt caught, a second one ended the process with status 2
SecondInterruptExited ==
    /\ exit = "2"
    /\ catching
    /\ interrupted
    /\ hist.sigs = 2

\* C10: an error-shaped line whose message is the "host address already in
\* use" message makes new_line return PortUnavailable and leaves state and
\* players_online as they were, whatever the snapshot.
PortErrorLeavesSnapshot ==
    (/\ call.res # "none"
     /\ Len(call.line) = 3 + Len(PortMsg)
     /\ call.line[1].k = "num"
     /\ call.line[2] = W("Error")
     /\ SubSeq(call.line, 4, Len(call.line)) = PortMsg)
    => /\ call.res = "PortUnavailable"
       /\ state = call.pre

\* the port error applied to an InGame snapshot with two players online
PortErrorWhileInGame ==
    /\ call.line = ErrorLine(PortMsg)
    /\ call.res = "PortUnavailable"
    /\ call.pre = [state |-> "InGame", players_online |-> {"alice", "bob"}]
    /\ state = call.pre

\* a line of a recognized shape that new_line has no answer to: a
\* state-transition line to a name outside the twelve, or an error-shaped
\* line (stamp, Error, component, message) with another message than PortMsg
IsUnknownLine(line) ==
    \/ /\ IsTransitionLine(line)
       /\ line[Len(line)].v \notin RunningServerState
    \/ /\ Len(line) >= 4
       /\ line[1].k = "num"
       /\ line[2] = W("Error")
       /\ SubSeq(line, 4, Len(line)) # PortMsg

\* C11: a state-transition line to a name that is not one of the twelve,
\* and an error-shaped line with an unrecognized message, abort the run:
\* the iteration that applies one ends the control-loop thread by a panic,
\* never at the end of a successful new_line, the snapshot is not assigned a
\* state by it, and once the thread has panicked no further line is applied
\* and run_once does not return Ok.
UnknownLineAborts ==
    [][/\ (hist'.applied = hist.applied + 1 /\ IsUnknownLine(cur))
          => cpc' = "panic" /\ state' = state /\ hist'.startups = hist.startups
       /\ (cpc = "panic" /\ hist'.spawns = hist.spawns)
          => /\ hist'.applied = hist.applied
             /\ cpc' \in {"panic", "exited"}
             /\ pc' # "returned"]_vars

\* an unknown line applied in game as the second line: the thread panicked,
\* the state is still InGame, the child still runs
UnknownLinePanickedInGame ==
    /\ cpc = "panic"
    /\ state.state = "InGame"
    /\ hist.applied = 2
    /\ emitted = 2
    /\ child = "running"

\* a generic-event line "<date> <time> [tag] p ..." about player p
IsEventLineFor(line, tag, p) ==
    /\ Len(line) >= 4
    /\ line[1].k = "date"
    /\ line[2].k = "time"
    /\ line[3] = Tag(tag)
    /\ line[4] = W(p)

\* C12: for every snapshot and every p not in players_online, a JOIN line
\* for p followed by a LEAVE line for p leaves players_online as it was
\* before the JOIN and state unchanged, and both calls return Ok.
JoinThenLeaveRestores ==
    \A p \in ApplyPlayers :
        (/\ call.res # "none"
         /\ call.prev.res # "none"
         /\ IsEventLineFor(call.prev.line, "JOIN", p)
         /\ IsEventLineFor(call.line, "LEAVE", p)
         /\ p \notin call.prev.pre.players_online)
        => /\ call.prev.res = "Ok"
           /\ call.res = "Ok"
           /\ call.pre.players_online = call.prev.pre.players_online \cup {p}
           /\ state = call.prev.pre

\* alice joined and left while bob was online in game: bob alone is left
AliceJoinedAndLeft ==
    /\ call.prev.pre = [state |-> "InGame", players_online |-> {"bob"}]
    /\ call.prev.line = EventLine("JOIN", "alice")
    /\ call.line = EventLine("LEAVE", "alice")
    /\ state = [state |-> "InGame", players_online |-> {"bob"}]

\* C13: for every snapshot, a LEAVE line for an identifier that is not in
\* players_online returns Ok and leaves state and players_online unchanged.
LeaveOfAbsentIsNoOp ==
    \A p \in ApplyPlayers :
        (/\ call.res # "none"
         /\ IsEventLineFor(call.line, "LEAVE", p)
         /\ p \notin call.pre.players_online)
        => /\ call.res = "Ok"
           /\ state = call.pre

\* LEAVE of alice applied while only bob is online
AbsentAliceLeft ==
    /\ call.line = EventLine("LEAVE", "alice")
    /\ call.res = "Ok"
    /\ call.pre = [state |-> "InGame", players_online |-> {"bob"}]
    /\ state = call.pre

\* C14: in every run the first message the orchestrator receives is
\* StartupComplete and no State is received before it: while run_once waits
\* for its first message the reply channel holds nothing but StartupComplete
\* (the assert of server.rs:400 cannot fail), and while it waits for a State
\* reply the channel holds nothing but State, StartupComplete having been
\* received before.
FirstMessageIsStartupComplete ==
    /\ pc = "startup"
          => \A i \in 1..Len(fromServer) : fromServer[i] = StartupComplete
    /\ pc = "recv_state"
          => /\ hist.startups = 1
             /\ \A i \in 1..Len(fromServer) : fromServer[i].t = "State"
    /\ (\E i \in 1..Len(fromServer) : fromServer[i].t = "State")
          => pc = "recv_state"

\* a State reply waits to be received, StartupComplete was received before
StateReplyAfterStartup ==
    /\ pc = "recv_state"
    /\ Len(fromServer) = 1
    /\ fromServer[1].t = "State"
    /\ hist.startups = 1
    /\ hist.getstates = 1

\* C15: within one run the lines applied are a prefix of the lines the
\* child wrote, in order, none twice and none skipped: the line applied as
\* the k-th is the line in the reader's hand, and it is the k-th line the
\* child wrote.
AppliedIsPrefixOfEmitted ==
    [][hist'.applied = hist.applied + 1
       => rpc = "send" /\ emitted = hist'.applied]_vars

\* C16: the control loop returns Ok only after the reader has ended and
\* the child has exited successfully, in that order: it waits for the child
\* only with the reader joined, it has returned Ok only with the child
\* exited successfully, and after an unsuccessful exit of the child it never
\* has returned Ok, run_once never has returned and the process never has
\* ended with status 0.
OkOnlyAfterReaderAndChild ==
    /\ cpc \in {"wait", "ok"} => rpc = "done"
    /\ cpc = "ok" => child = "ok"
    /\ child = "failed" => cpc # "ok" /\ pc # "returned" /\ exit # "0"

\* no line at all, the reader joined, the child exited unsuccessfully: the
\* assert on the exit status panicked
WaitAssertPanicked ==
    /\ cpc = "panic"
    /\ child = "failed"
    /\ rpc = "done"
    /\ emitted = 0
    /\ hist.applied = 0

\* C17: when the control loop has ended without having sent
\* StartupComplete (by PortUnavailable, by a panic, or with Ok after the end
\* of the stream or Closed), run_once is still at its first receive, never
\* goes on to the autoupdate loop or to a return, and its next step ends
\* the process: with status 1 for the fault returned, by an abort otherwise.
NoStartupNoSuccess ==
    [][(CtlEnded /\ hist.startups = 0)
       => /\ pc = "startup"
          /\ pc' \in {"startup", "exited"}
          /\ (pc' = "exited" /\ hist'.sigs = hist.sigs)
                => exit' = (IF cpc = "err" THEN "1" ELSE "panic")]_vars

\* the port error came before the state reached InGame: status 1, the
\* child left running
PortErrorBeforeStartup ==
    /\ exit = "1"
    /\ hist.spawns = 1
    /\ hist.startups = 0
    /\ hist.applied >= 1
    /\ child = "running"

\* C18: once a line has raised PortUnavailable in the control loop, before
\* or after startup and under every policy, the orchestrator does not
\* abort: the process runs on until it ends with status 1 (or with 2, by
\* an interrupt), and no further child is spawned.
PortFaultReturnedAsErr ==
    [][cpc = "err"
       => /\ exit' \in {"running", "1", "2"}
          /\ hist'.spawns = hist.spawns]_vars

\* C19: under Startup and Disabled run_once never is in the autoupdate
\* loop, so it queries no update during the run, no Shutdown and no GetState
\* reaches the control loop, a return of run_once carries no pending update,
\* and Server::run spawns one child at most.
NonLiveRunsOnce ==
    policy \in {"Startup", "Disabled"}
    => /\ pc \notin {"poll", "shutdown", "getstate", "recv_state"}
       /\ hist.checks = 0
       /\ hist.shutdowns = 0
       /\ hist.getstates = 0
       /\ pc = "returned" => result = None
       /\ hist.spawns <= 1

\* Startup: updated before the run, one run, the server closed by itself,
\* Server::run returned Ok
StartupPolicyRanOnce ==
    /\ policy = "Startup"
    /\ exit = "0"
    /\ current = VersionOf(1)
    /\ hist.spawns = 1
    /\ hist.applied >= 1

\* C20: under Disabled Server::run calls neither update nor update_mods and
\* current_version keeps its value for the whole of Server::run; under the
\* other policies, when the first run starts and as long as it lasts,
\* update_mods has been called exactly once and update at most once, namely
\* exactly when a newer version was resolved, which is then the current one.
PreRunUpdateOnce ==
    /\ policy = "Disabled"
          => hist.updates = 0 /\ hist.mods = 0 /\ current = VersionOf(0)
    /\ (/\ policy # "Disabled"
        /\ \/ pc = "spawn" /\ hist.spawns = 0
           \/ pc \notin {"spawn", "exited"} /\ hist.spawns = 1)
          => /\ hist.mods = 1
             /\ hist.updates <= 1
             /\ hist.updates = 1 <=> current # VersionOf(0)
             /\ hist.updates = 1 => VersionLess(VersionOf(0), current)

\* Startup: the newer version applied and the mods refreshed before the
\* first run, which waits for StartupComplete
UpdatedBeforeFirstRun ==
    /\ policy = "Startup"
    /\ pc = "startup"
    /\ hist.spawns = 1
    /\ hist.updates = 1
    /\ hist.mods = 1
    /\ current = VersionOf(1)

\* C21: an update check of the live loop whose version resolution fails
\* reports no update: it raises no fault, sends no Shutdown and asks for no
\* state, leaves current_version alone, and the loop starts its next
\* interval.
FailedResolutionIsNoUpdate ==
    [][(hist'.unresolved /\ ~hist.unresolved)
          => /\ pc = "poll" /\ pc' = "poll"
             /\ tick' = 0
             /\ exit' = "running"
             /\ current' = current
             /\ resolved' = resolved
             /\ result' = result
             /\ hist'.checks = hist.checks
             /\ hist'.shutdowns = hist.shutdowns
             /\ hist'.updates = hist.updates
             /\ fromServer' = fromServer
             /\ cpc' = cpc]_vars

\* C21 witness: after a failed resolution the loop has slept through the
\* whole of the next interval, the child still running
SleptAfterFailedResolution ==
    /\ hist.unresolved
    /\ pc = "poll"
    /\ interval = 1
    /\ tick = PollSteps(interval)
    /\ exit = "running"
    /\ cpc = "select"
    /\ child = "running"

\* C22: Server::run spawns a further child only when the run before it
\* returned a pending update, which it has installed; a run that returned
\* none ends the session (with status 0, unless an interrupt ends the process
\* first), and once the process has ended (a crash, a fault, an interrupt)
\* no child is spawned.
RespawnOnlyOnPendingUpdate ==
    [][/\ (hist'.spawns = hist.spawns + 1 /\ hist.spawns >= 1)
            => /\ exit = "running"
               /\ result # None
               /\ current = result
               /\ hist.checks >= 1
               /\ cpc = "ok"
       /\ (pc = "returned" /\ pc' # "returned" /\ result = None)
            => /\ exit' # "running"
               /\ hist'.sigs = hist.sigs => exit' = "0"
               /\ hist'.spawns = hist.spawns
       /\ exit # "running" => hist'.spawns = hist.spawns]_vars

\* C22 witness: a second child was spawned for a pending update, and its run
\* returned none, which ended the session
SessionEndedAfterRestart ==
    /\ hist.spawns = 2
    /\ exit = "0"
    /\ hist.updates >= 1

\* C23: for every two-segment version X.Y and every three-segment version
\* a.b.c of the segment range, Y at the largest value included,
\* Version2::includes returns true exactly when a = X and b = Y (and so
\* returns false for the previous and the next minor).
IncludesExactlySameMinor ==
    call.res # "none"
       => call.res = (IF call.version[1] = call.v2[1]
                         /\ call.version[2] = call.v2[2]
                      THEN "true" ELSE "false")

\* C24: the control loop that receives Shutdown sends the child one interrupt
\* signal and leaves the wait loop in that step; from then on in this run it
\* sends no further signal, applies no line, answers no GetState and sends no
\* StartupComplete, so the signal comes before the drain, the join of the
\* reader and the wait for the child.
ShutdownSignalsOnceAndLeaves ==
    [][/\ hist'.shutdowns = hist.shutdowns + 1
            => /\ cpc = "select" /\ cpc' = "drain"
               /\ hist.kills = 0 /\ hist'.kills = 1
               /\ child = "running" => child' = "signalled"
               /\ hist'.applied = hist.applied
               /\ hist'.getstates = hist.getstates
               /\ hist'.startups = hist.startups
               /\ state' = state
               /\ fromServer' = fromServer
       /\ (hist.shutdowns >= 1 /\ hist'.spawns = hist.spawns)
            => /\ hist'.shutdowns = 1
               /\ hist'.kills = 1
               /\ hist'.applied = hist.applied
               /\ hist'.getstates = hist.getstates
               /\ hist'.startups = hist.startups
               /\ cpc' \notin {"start", "select"}
       /\ cpc \in {"drain", "join", "wait"} => hist.kills = hist.shutdowns]_vars

\* C24 witness: Shutdown was received and the child signalled while the
\* reader held a line for the control loop, which is now draining
ShutdownWhileLinePending ==
    /\ hist.shutdowns = 1
    /\ hist.kills = 1
    /\ cpc = "drain"
    /\ child = "signalled"
    /\ rpc = "send"
    /\ ~ReGoodbyeMatches(cur)

\* C25: the control loop answers GetState with a copy of its snapshot as the
\* lines applied so far have left it, and the step changes neither the state
\* nor the players online (only applying a line changes them); a line
\* applied later leaves the replies already sent as they are.
StateReplyIsSnapshotCopy ==
    [][/\ hist'.getstates = hist.getstates + 1
            => /\ fromServer' = Append(fromServer, State(state))
               /\ state' = state
               /\ hist'.applied = hist.applied
       /\ hist'.applied = hist.applied + 1
            => /\ Len(fromServer') >= Len(fromServer)
               /\ SubSeq(fromServer', 1, Len(fromServer)) = fromServer
       /\ (state' # state /\ cpc = "select" /\ exit' = "running")
            => hist'.applied = hist.applied + 1]_vars

\* C25 witness: a State reply not yet received, and a line applied since has
\* changed the players online of the control loop's snapshot
ReplyOlderThanState ==
    /\ pc = "recv_state"
    /\ fromServer # <<>>
    /\ Head(fromServer).t = "State"
    /\ Head(fromServer).rs.state = "InGame"
    /\ Head(fromServer).rs.players_online = {}
    /\ state.players_online # {}

\* C26: the reader forwards each line it has read before it reads the next,
\* reads on after a line that is not the Goodbye line, and after the Goodbye
\* line or at the end of the stream goes on to send None, once, and exits:
\* its steps within a run are start, read, forward, ..., None, exit.
ReaderForwardsUpToGoodbye ==
    [][(rpc' # rpc /\ exit' = "running" /\ hist'.spawns = hist.spawns)
          => \/ rpc = "none" /\ rpc' = "read"
             \/ rpc = "read" /\ rpc' = "send" /\ cur' \in ChildLines
             \/ rpc = "read" /\ rpc' = "last" /\ child \in {"ok", "failed"}
             \/ /\ rpc = "send"
                /\ rpc' = IF ReGoodbyeMatches(cur) THEN "last" ELSE "read"
                /\ \/ hist'.applied = hist.applied + 1
                   \/ cpc = "drain"
                   \/ CtlEnded
             \/ rpc = "last" /\ rpc' = "done"]_vars

\* C26 witness: the reader has exited after the Goodbye line, the first line
\* of a child that is still running and could write more
ReaderDoneAfterGoodbye ==
    /\ rpc = "done"
    /\ emitted = 1
    /\ child = "running"
    /\ exit = "running"

\* C27: when a line of the child's output cannot be read the reader stops
\* reading and goes on to send None and exit; and a send that fails because
\* the control loop has ended leaves the process running, the reader going
\* on as after a send that succeeded.
ReadFailureStopsReader ==
    [][/\ (rpc = "read" /\ emitted' = emitted + 1 /\ rpc' # "send")
            => rpc' = "last"
       /\ (CtlEnded /\ rpc \in {"send", "last"} /\ rpc' # rpc
              /\ hist'.sigs = hist.sigs /\ pc' = pc)
            => exit' = "running" /\ rpc' \in {"read", "last", "done"}]_vars

\* C28: a control loop that has left its wait loop gets through the drain
\* and the join of the reader, given that the child's output ends; it is
\* never at the join while the reader has not exited (so never there while
\* the reader waits to send); and no line is applied during drain and join.
DrainAndJoinTerminate ==
    /\ (cpc \in {"drain", "join"}) ~> (cpc \notin {"drain", "join"})
    /\ [](cpc = "join" => rpc = "done")
    /\ [][(cpc \in {"drain", "join"} /\ exit' = "running")
              => (hist'.applied = hist.applied /\ state' = state)]_vars

\* C28 witness: the loop ended on Closed and the reader has exited with the
\* child still running, so the Goodbye line and None were drained; the
\* control loop is at the join
DrainedGoodbyeAfterClosed ==
    /\ cpc = "join"
    /\ rpc = "done"
    /\ state.state = "Closed"
    /\ child = "running"
    /\ hist.shutdowns = 0
    /\ emitted > hist.applied

\* C29: whatever the interval, 0 included, an update query of the live loop
\* comes after at least one read of the interrupted flag since the loop
\* began or the query before it, and after the whole interval of
\* increments (tick counts the reads of the flag, one per increment).
QueryAfterFlagRead ==
    [][(hist'.checks = hist.checks + 1 \/ (hist'.unresolved /\ ~hist.unresolved))
          => tick >= 1 /\ tick = PollSteps(interval)]_vars

\* C30: applying a line that leaves the state Failed or InitializationFailed
\* does not end the wait loop (unless the line is a fault): the control loop
\* is back at its select, where lines, GetState and Shutdown are received
\* whatever the state.  An applied line ends the loop only by the state
\* Closed or by a fault, the other ways out being Shutdown and None.
FailureStatesKeepLooping ==
    [][/\ (hist'.applied = hist.applied + 1 /\ exit' = "running"
              /\ state'.state \in {"Failed", "InitializationFailed"})
            => cpc' = "select" \/ cpc' \in {"err", "panic"}
       /\ (hist'.applied = hist.applied + 1 /\ exit' = "running"
              /\ cpc' # "select")
            => state'.state = "Closed" \/ cpc' \in {"err", "panic"}
       /\ (cpc = "select" /\ cpc' # "select" /\ exit' = "running")
            => \/ hist'.applied = hist.applied + 1
               \/ hist'.shutdowns = hist.shutdowns + 1
               \/ rpc = "last" /\ rpc' = "done"]_vars

\* C30 witness: the state went to Failed after startup and the control loop,
\* still waiting, has answered a GetState with that snapshot
GetStateAnsweredWhileFailed ==
    /\ cpc = "select"
    /\ state.state = "Failed"
    /\ pc = "recv_state"
    /\ fromServer # <<>>
    /\ Head(fromServer).t = "State"
    /\ Head(fromServer).rs.state = "Failed"

\* C31: for every snapshot, a line that none of the three patterns matches,
\* and an event line with a tag other than JOIN and LEAVE, return Ok and
\* leave the snapshot as it was; a JOIN or LEAVE line leaves state as it
\* was, and a state-transition line leaves players_online as it was.
OtherLinesLeaveSnapshot ==
    call.res # "none"
       => /\ (\/ /\ ~ReErrorMatches(call.line)
                 /\ ~ReStateMatches(call.line)
                 /\ ~ReEventMatches(call.line)
              \/ /\ ReEventMatches(call.line)
                 /\ call.line[3].v \notin {"JOIN", "LEAVE"})
               => call.res = "Ok" /\ state = call.pre
          /\ (ReEventMatches(call.line) /\ call.line[3].v \in {"JOIN", "LEAVE"})
               => state.state = call.pre.state
          /\ IsTransitionLine(call.line)
               => state.players_online = call.pre.players_online

\* C31 witness: a CHAT line of alice applied in game with bob online
ChatLineApplied ==
    /\ call.line = EventLine("CHAT", "alice")
    /\ call.pre = [state |-> "InGame", players_online |-> {"bob"}]
    /\ call.res = "Ok"
    /\ state = call.pre

\* C32: the control loop of every run, the runs after a restart included,
\* has the snapshot of RunningServer::new() (state Start, nobody online)
\* until it applies its first line, and while it runs the snapshot changes
\* only in a step that applies a line.
RunBeginsWithNewSnapshot ==
    /\ []((cpc \in {"select", "drain", "join", "wait", "ok", "err", "panic"}
             /\ hist.applied = 0)
           => state = NewRunningServer)
    /\ [][(state' # state /\ exit' = "running" /\ cpc # "start")
             => hist'.applied = hist.applied + 1]_vars

\* C32 witness: the control loop of the run after a restart, which followed
\* a run that was in game, waits with nothing applied yet
SecondRunStartsAfresh ==
    /\ hist.spawns = 2
    /\ hist.updates >= 1
    /\ cpc = "select"
    /\ hist.applied = 0
    /\ state = NewRunningServer

\* C33: under a live policy, when the control loop has ended by itself
\* after startup and the orchestrator is in its poll loop, run_once leaves
\* the poll loop in the end, also when no interrupt arrives and no update
\* is found.
EndedRunLeavesPollLoop ==
    (pc = "poll" /\ CtlEnded) ~> (pc # "poll")

\* C34: when run_once is about to send Shutdown or GetState the control
\* loop is in its wait loop or its thread has panicked, so a send that
\* fails, and a State receive that finds the channel closed, come from a
\* panic of the control-loop thread only.
SendFindsWaitLoop ==
    /\ [](pc \in {"shutdown", "getstate"} => cpc \in {"select", "panic"})
    /\ [][(pc \in {"shutdown", "getstate", "recv_state"} /\ exit' = "panic"
              /\ cpc # "select")
            => cpc = "panic"]_vars

\* C35: the control loop that receives a GetState finds the reply channel
\* empty and puts one State in it; that State is what the orchestrator
\* receives next, whatever the control loop does meanwhile, so the receive
\* ends neither in "Wrong response type received" nor in "Server thread
\* crashed".
GetStateAnsweredByOneState ==
    /\ [](pc = "recv_state"
            => /\ Len(fromServer) = 1
               /\ fromServer[1].t = "State")
    /\ [][/\ (hist'.getstates = hist.getstates + 1)
                => (fromServer = <<>> /\ fromServer' = <<State(state)>>)
          /\ (pc = "recv_state" /\ pc' # pc /\ hist'.sigs = hist.sigs)
                => (/\ exit' = "running"
                    /\ fromServer' = <<>>
                    /\ pc' \in {"shutdown", "poll"})]_vars

\* C35 witness: the State reply waits for the orchestrator while the
\* control loop that sent it has ended
ReplyOutlivesControlLoop ==
    /\ pc = "recv_state"
    /\ fromServer # <<>>
    /\ Head(fromServer).t = "State"
    /\ CtlEnded

\* C36: under Enabled the control loop that receives Shutdown has nobody
\* online: no JOIN line was applied since the State reply that the
\* orchestrator decided on.
EnabledShutdownFindsNobodyOnline ==
    [][(hist'.shutdowns = hist.shutdowns + 1 /\ policy = "Enabled")
          => state.players_online = {}]_vars

\* C37: when server_process::run returns, with Ok or with Err, the reader
\* thread has ended and the child has exited.
RunReturnsAfterTeardown ==
    [][(cpc' \in {"ok", "err"} /\ cpc \notin {"ok", "err"})
          => (rpc' = "done" /\ child' \in {"ok", "failed"})]_vars

\* C38: a child is spawned only when no child of this supervisor is alive:
\* the first at the start, each later one after the control loop of the run
\* before has joined its reader, waited for its child, which exited
\* successfully, and returned.
SpawnAfterChildExited ==
    [][(hist'.spawns = hist.spawns + 1)
          => (IF hist.spawns = 0
              THEN child = "none"
              ELSE child = "ok" /\ rpc = "done" /\ cpc = "ok")]_vars

\* C38 witness: the child of the second run is alive, the first having
\* exited before it was spawned
SecondChildAlive ==
    /\ hist.spawns = 2
    /\ child = "running"
    /\ pc = "startup"
    /\ cpc = "select"

\* C39: current_version changes only to a strictly greater version; a
\* pending update, which is what restarts the server, is strictly greater
\* than current_version, and the restart installs it.
CurrentVersionOnlyGrows ==
    /\ []((pc \in {"join", "returned"} /\ result # None)
           => VersionLess(current, result))
    /\ [][/\ (current' # current) => VersionLess(current, current')
          /\ (pc = "returned" /\ pc' = "spawn")
               => (current' = result /\ VersionLess(current, current'))]_vars

\* C39 witness: the server was restarted for the update from VersionOf(0)
\* to VersionOf(1) and its second child runs
RestartedOnNewerVersion ==
    /\ hist.spawns = 2
    /\ hist.updates = 1
    /\ current = VersionOf(1)
    /\ child = "running"

====
